---- MODULE Spec2Model ----
(***************************************************************************)
(* Library management service: books, users and the borrowed table of      *)
(* src/database.py, and the operations of LibraryService                    *)
(* (src/library_service.py) with the membership rules of src/models.py.    *)
(*                                                                         *)
(* Money is counted in cents: every fine is a multiple of 0.50, so the     *)
(* REAL column `fines` only ever holds values that binary floating point   *)
(* represents exactly, and integer cents are the same arithmetic.          *)
(* Dates are day numbers: borrow_date is stored with day granularity       *)
(* ('%Y-%m-%d') and (now - borrow_date).days is the difference of the two  *)
(* day numbers.                                                            *)
(* The borrowed table has no key and no ORDER BY is ever used on it, so    *)
(* it is a bag of rows; result[0] of a SELECT and the row removed by       *)
(* DELETE ... LIMIT 1 are each some matching row.                          *)
(***************************************************************************)
EXTENDS Integers, FiniteSets, Sequences, Bags, TLC

VARIABLES books, users, borrowed, today, last, calls

vars == <<books, users, borrowed, today, last, calls>>

(***************************************************************************)
(* Bounds of the model and inputs of the operations                        *)
(***************************************************************************)
MaxBorrows == 3
DigitalUsers == 100
MaxStepBorrows == 4

UserIds == {1, 2}
Isbns == {"b1", "b2"}
ClockDays == {0, 14, 34}
Callers == {1, 2}

(***************************************************************************)
(* Program constants                                                       *)
(***************************************************************************)
FINE_PER_DAY == 50
FineCeiling == 1000
DigitalCopies == 999

\* add_book(isbn, book_type, copies) as the callers of the service issue it
AddBookInputs ==
    {<<"b1", "Printed", -1>>, <<"b1", "Printed", 2>>,
     <<"b2", "Digital", DigitalCopies>>}

\* add_user(user_id, membership); "Gold" is a tier RULES does not know
AddUserInputs ==
    {<<1, "Basic">>, <<1, "Premium">>, <<1, "Gold">>,
     <<2, "VIP">>}

RULES ==
    [Basic |-> <<3, 14>>, Premium |-> <<5, 21>>, VIP |-> <<10, 30>>]

KnownMembership(m) == m \in DOMAIN RULES

max_books(m) == RULES[m][1]

\* a bug: the wrong column of the table
max_days_AsBooks(m) == RULES[m][1]

max_days(m) == RULES[m][2]

(***************************************************************************)
(* Store queries                                                           *)
(***************************************************************************)
Row(u, b, d) == [user_id |-> u, isbn |-> b, borrow_date |-> d]

BookExists(b) == b \in DOMAIN books

UserExists(u) == u \in DOMAIN users

\* SELECT COUNT(*) FROM borrowed WHERE user_id=?
RECURSIVE SumCounts(_, _)
SumCounts(bag, rows) ==
    IF rows = {} THEN 0
    ELSE LET r == CHOOSE x \in rows : TRUE
         IN  bag[r] + SumCounts(bag, rows \ {r})

borrowed_count(u) ==
    SumCounts(borrowed, {r \in DOMAIN borrowed : r.user_id = u})

\* SELECT borrow_date FROM borrowed WHERE user_id=? AND isbn=?
LoanRows(u, b) ==
    {r \in DOMAIN borrowed : r.user_id = u /\ r.isbn = b}

OpenLoans(u, b) == SumCounts(borrowed, LoanRows(u, b))

(***************************************************************************)
(* Results of the operations                                               *)
(***************************************************************************)
Outcome(op, u, b, res) ==
    [op |-> op, user_id |-> u, isbn |-> b, result |-> res]

\* a call in flight: the store call it issues next and what it has read
Idle == [pc |-> "idle"]

InFlight(pc, u, b, m, d, f) ==
    [pc |-> pc, user_id |-> u, isbn |-> b, membership |-> m,
     borrow_date |-> d, fine |-> f]

Init ==
    /\ calls = [p \in Callers |-> Idle]
    /\ books = << >>
    /\ users = << >>
    /\ borrowed = EmptyBag
    /\ today = 0
    /\ last = Outcome("init", 0, "", "ok")

(***************************************************************************)
(* add_book                                                                *)
(***************************************************************************)
\* a bug: the new book starts with no copy available
NewBook_NoneAvailable(book_type, copies) ==
    [type |-> book_type, total_copies |-> copies,
     available_copies |-> 0, borrow_count |-> 0]

NewBook(book_type, copies) ==
    [type |-> book_type, total_copies |-> copies,
     available_copies |-> copies, borrow_count |-> 0]

\* what add_book was called with, and its answer
AddOutcome(b, book_type, copies, res) ==
    [op |-> "add_book", user_id |-> 0, isbn |-> b, result |-> res,
     type |-> book_type, copies |-> copies]

\* a bug: INSERT OR REPLACE without the existence check
add_book_Replace(b, book_type, copies) ==
    /\ books' = [x \in DOMAIN books \cup {b} |->
                     IF x = b THEN NewBook(book_type, copies) ELSE books[x]]
    /\ last' = AddOutcome(b, book_type, copies, "ok")
    /\ UNCHANGED <<users, borrowed, today, calls>>

add_book(b, book_type, copies) ==
    /\ IF BookExists(b)
       THEN /\ last' = AddOutcome(b, book_type, copies, "duplicate_isbn")
            /\ UNCHANGED books
       ELSE /\ books' = [x \in DOMAIN books \cup {b} |->
                            IF x = b THEN NewBook(book_type, copies)
                            ELSE books[x]]
            /\ last' = AddOutcome(b, book_type, copies, "ok")
    /\ UNCHANGED <<users, borrowed, today, calls>>

(***************************************************************************)
(* add_user                                                                *)
(***************************************************************************)
NewUser(membership) == [membership |-> membership, fines |-> 0]

\* a bug: INSERT OR REPLACE without the existence check
add_user_Replace(u, membership) ==
    /\ users' = [x \in DOMAIN users \cup {u} |->
                     IF x = u THEN NewUser(membership) ELSE users[x]]
    /\ last' = Outcome("add_user", u, "", "ok")
    /\ UNCHANGED <<books, borrowed, today, calls>>

add_user(u, membership) ==
    /\ IF UserExists(u)
       THEN /\ last' = Outcome("add_user", u, "", "duplicate_user")
            /\ UNCHANGED users
       ELSE /\ users' = [x \in DOMAIN users \cup {u} |->
                            IF x = u THEN NewUser(membership)
                            ELSE users[x]]
            /\ last' = Outcome("add_user", u, "", "ok")
    /\ UNCHANGED <<books, borrowed, today, calls>>

(***************************************************************************)
(* borrow_book                                                             *)
(***************************************************************************)
\* a bug: ">=" where the code has ">"
FinesBlock_AtCeiling(fines) == fines >= FineCeiling

FinesBlock(fines) == fines > FineCeiling

\* a bug: ">" where the code has ">="
LimitReached_Strict(count, limit) == count > limit

LimitReached(count, limit) == count >= limit

\* a bug: a user that is not found is let through
check_user_can_borrow_NoUserCheck(u) ==
    IF ~UserExists(u) THEN "none"
    ELSE IF FinesBlock(users[u].fines) THEN "fines_owed"
    ELSE IF ~KnownMembership(users[u].membership) THEN "KeyError"
    ELSE IF LimitReached(borrowed_count(u), max_books(users[u].membership))
         THEN "limit_reached"
    ELSE "none"

\* a bug: an unknown membership gets the Basic limit
check_user_can_borrow_DefaultTier(u) ==
    IF ~UserExists(u) THEN "user_not_found"
    ELSE IF FinesBlock(users[u].fines) THEN "fines_owed"
    ELSE IF LimitReached(borrowed_count(u),
                         IF KnownMembership(users[u].membership)
                         THEN max_books(users[u].membership)
                         ELSE max_books("Basic"))
         THEN "limit_reached"
    ELSE "none"

check_user_can_borrow(u) ==
    IF ~UserExists(u) THEN "user_not_found"
    ELSE IF FinesBlock(users[u].fines) THEN "fines_owed"
    ELSE IF ~KnownMembership(users[u].membership) THEN "KeyError"
    ELSE IF LimitReached(borrowed_count(u), max_books(users[u].membership))
         THEN "limit_reached"
    ELSE "none"

\* a bug: "<" where the code has "<="
NoCopies_Negative(available_copies) == available_copies < 0

NoCopies(available_copies) == available_copies <= 0

check_book_available(b) ==
    IF ~BookExists(b) THEN "book_not_found"
    ELSE IF NoCopies(books[b].available_copies) THEN "no_copies"
    ELSE "none"

\* a bug: the book is checked before the user
borrow_result_BookFirst(u, b) ==
    IF check_book_available(b) # "none" THEN check_book_available(b)
    ELSE IF check_user_can_borrow(u) # "none" THEN check_user_can_borrow(u)
    ELSE "ok"

borrow_result(u, b) ==
    IF check_user_can_borrow(u) # "none" THEN check_user_can_borrow(u)
    ELSE IF check_book_available(b) # "none" THEN check_book_available(b)
    ELSE "ok"

\* a bug: borrow_count is not incremented
BorrowedBook_NoCount(book) == [book EXCEPT !.available_copies = @ - 1]

BorrowedBook(book) ==
    [book EXCEPT !.available_copies = @ - 1, !.borrow_count = @ + 1]

process_borrow_books(b) == [books EXCEPT ![b] = BorrowedBook(@)]

process_borrow_rows(u, b) == borrowed (+) SetToBag({Row(u, b, today)})

\* a bug: the writes are made before the availability check
borrow_book_WriteFirst(u, b) ==
    /\ last' = Outcome("borrow_book", u, b, borrow_result(u, b))
    /\ IF borrow_result(u, b) \in {"ok", "no_copies"}
       THEN /\ books' = process_borrow_books(b)
            /\ borrowed' = process_borrow_rows(u, b)
       ELSE UNCHANGED <<books, borrowed>>
    /\ UNCHANGED <<users, today, calls>>

borrow_book(u, b) ==
    /\ last' = Outcome("borrow_book", u, b, borrow_result(u, b))
    /\ IF borrow_result(u, b) = "ok"
       THEN /\ books' = process_borrow_books(b)
            /\ borrowed' = process_borrow_rows(u, b)
       ELSE UNCHANGED <<books, borrowed>>
    /\ UNCHANGED <<users, today, calls>>

(***************************************************************************)
(* return_book                                                             *)
(***************************************************************************)
\* a bug: the isbn is left out of the WHERE clause
check_user_has_book_AnyIsbn(u, b) ==
    {r \in DOMAIN borrowed : r.user_id = u}

\* the rows the SELECT of _check_user_has_book returns
check_user_has_book(u, b) == LoanRows(u, b)

\* a bug: both end days are counted
days_borrowed_Inclusive(d) == today - d + 1

days_borrowed(d) == today - d

\* a bug: the allowed days are not subtracted
overdue_days_NoAllowance(days, allowed_days) == days

overdue_days(days, allowed_days) == days - allowed_days

IsOverdue(overdue) == overdue > 0

fine_amount(overdue) == overdue * FINE_PER_DAY

calculate_return_fine(m, d) ==
    IF IsOverdue(overdue_days(days_borrowed(d), max_days(m)))
    THEN fine_amount(overdue_days(days_borrowed(d), max_days(m)))
    ELSE 0

\* a bug: SET fines=? overwrites what the user already owes
add_fine_Overwrite(u, fine) ==
    IF fine > 0 THEN [users EXCEPT ![u].fines = fine] ELSE users

\* a bug: SET fines=fines-?
add_fine_Subtract(u, fine) ==
    IF fine > 0 THEN [users EXCEPT ![u].fines = @ - fine] ELSE users

\* UPDATE users SET fines=fines+? is only issued for an overdue loan
add_fine(u, fine) ==
    IF fine > 0 THEN [users EXCEPT ![u].fines = @ + fine] ELSE users

delete_one(row) == borrowed (-) SetToBag({row})

\* a bug: the DELETE has no LIMIT 1
process_return_rows_NoLimit(u, b) ==
    {[r \in DOMAIN borrowed \ LoanRows(u, b) |-> borrowed[r]]}

\* a bug: the DELETE is not issued
process_return_rows_Keep(u, b) == {borrowed}

\* DELETE FROM borrowed WHERE user_id=? AND isbn=? LIMIT 1: the tables it
\* can leave. (SQLite accepts LIMIT on a DELETE when it is built with
\* SQLITE_ENABLE_UPDATE_DELETE_LIMIT; this is the statement as written.)
process_return_rows(u, b) ==
    IF LoanRows(u, b) = {} THEN {borrowed}
    ELSE {delete_one(row) : row \in LoanRows(u, b)}

\* a bug: the copy is not given back
ReturnedBook_NoIncrement(book) == book

ReturnedBook(book) == [book EXCEPT !.available_copies = @ + 1]

process_return_books(b) ==
    IF BookExists(b) THEN [books EXCEPT ![b] = ReturnedBook(@)] ELSE books

return_book(u, b) ==
    IF check_user_has_book(u, b) = {}
    THEN /\ last' = Outcome("return_book", u, b, "not_borrowed")
         /\ UNCHANGED <<books, users, borrowed, today, calls>>
    ELSE IF ~BookExists(b)
    THEN \* _get_book_title: [0][0] of an empty result
         /\ last' = Outcome("return_book", u, b, "IndexError")
         /\ UNCHANGED <<books, users, borrowed, today, calls>>
    ELSE IF ~UserExists(u)
    THEN \* get_user gives None, None.max_days()
         /\ last' = Outcome("return_book", u, b, "AttributeError")
         /\ UNCHANGED <<books, users, borrowed, today, calls>>
    ELSE IF ~KnownMembership(users[u].membership)
    THEN /\ last' = Outcome("return_book", u, b, "KeyError")
         /\ UNCHANGED <<books, users, borrowed, today, calls>>
    ELSE \E first \in check_user_has_book(u, b),
            rows \in process_return_rows(u, b) :
           /\ users' = add_fine(u, calculate_return_fine(
                                      users[u].membership, first.borrow_date))
           /\ borrowed' = rows
           /\ books' = process_return_books(b)
           /\ last' = Outcome("return_book", u, b, "ok")
           /\ UNCHANGED <<today, calls>>

(***************************************************************************)
(* The clock: datetime.now() moves to a later day                          *)
(***************************************************************************)
Tick(d) ==
    /\ d > today
    /\ today' = d
    /\ last' = Outcome("tick", 0, "", "ok")
    /\ UNCHANGED <<books, users, borrowed, calls>>

(***************************************************************************)
(* Specification: any sequence of completed operations                     *)
(***************************************************************************)
RECURSIVE SumBorrowCount(_)
SumBorrowCount(bs) ==
    IF bs = {} THEN 0
    ELSE LET b == CHOOSE x \in bs : TRUE
         IN  books[b].borrow_count + SumBorrowCount(bs \ {b})

\* borrow_count grows without bound: successful borrows stop at MaxBorrows
BorrowBudget(u, b) ==
    borrow_result(u, b) = "ok" => SumBorrowCount(DOMAIN books) < MaxBorrows

Next ==
    \/ \E in \in AddBookInputs : add_book(in[1], in[2], in[3])
    \/ \E in \in AddUserInputs : add_user(in[1], in[2])
    \/ \E u \in UserIds, b \in Isbns : BorrowBudget(u, b) /\ borrow_book(u, b)
    \/ \E u \in UserIds, b \in Isbns : return_book(u, b)
    \/ \E d \in ClockDays : Tick(d)

Spec == Init /\ [][Next]_vars

(***************************************************************************)
(* Specification: one Digital book and DigitalUsers VIP users, each        *)
(* registered when the one before holds max_books loans, each borrowing    *)
(* the Digital book                                                        *)
(***************************************************************************)
NextDigital ==
    \/ /\ DOMAIN users = {}
       /\ add_book("b2", "Digital", DigitalCopies)
    \/ \E u \in 1..DigitalUsers :
          /\ u = Cardinality(DOMAIN users) + 1
          /\ u > 1 => borrowed_count(u - 1) >= max_books("VIP")
          /\ add_user(u, "VIP")
    \/ \E u \in DOMAIN users :
          /\ u = Cardinality(DOMAIN users)
          /\ borrow_book(u, "b2")

SpecDigital == Init /\ [][NextDigital]_vars

(***************************************************************************)
(* Specification: borrow_book and return_book one store call at a time.    *)
(* Every run_query opens a connection, executes one statement and commits, *)
(* so each step below is one run_query with the Python that follows it;    *)
(* the calls of Callers interleave between their steps.                    *)
(***************************************************************************)
StepBookInputs == {<<"b1", "Printed", 1>>, <<"b1", "Printed", 3>>}

StepUserInputs == {<<1, "Basic">>}

StepDays == {0, 34}

Finish(p, op, res) ==
    /\ calls' = [calls EXCEPT ![p] = Idle]
    /\ last' = Outcome(op, calls[p].user_id, calls[p].isbn, res)

Goto(p, pc) == calls' = [calls EXCEPT ![p].pc = pc]

BorrowsInFlight ==
    Cardinality({p \in Callers :
        calls[p].pc \in {"b_count", "b_book", "b_update"}})

\* get_user: SELECT * FROM users WHERE user_id=?, then the fines check
borrow_get_user(p, u, b) ==
    /\ calls[p] = Idle
    /\ SumBorrowCount(DOMAIN books) + BorrowsInFlight < MaxStepBorrows
    /\ IF ~UserExists(u)
       THEN /\ last' = Outcome("borrow_book", u, b, "user_not_found")
            /\ UNCHANGED calls
       ELSE IF FinesBlock(users[u].fines)
       THEN /\ last' = Outcome("borrow_book", u, b, "fines_owed")
            /\ UNCHANGED calls
       ELSE /\ calls' = [calls EXCEPT ![p] =
                   InFlight("b_count", u, b, users[u].membership, 0, 0)]
            /\ UNCHANGED last
    /\ UNCHANGED <<books, users, borrowed, today>>

\* SELECT COUNT(*) FROM borrowed WHERE user_id=?, then the limit check
borrow_count(p) ==
    /\ calls[p].pc = "b_count"
    /\ IF ~KnownMembership(calls[p].membership)
       THEN Finish(p, "borrow_book", "KeyError")
       ELSE IF LimitReached(borrowed_count(calls[p].user_id),
                            max_books(calls[p].membership))
       THEN Finish(p, "borrow_book", "limit_reached")
       ELSE Goto(p, "b_book") /\ UNCHANGED last
    /\ UNCHANGED <<books, users, borrowed, today>>

\* SELECT title, available_copies FROM books WHERE isbn=?, then its checks
borrow_check_book(p) ==
    /\ calls[p].pc = "b_book"
    /\ IF check_book_available(calls[p].isbn) # "none"
       THEN Finish(p, "borrow_book", check_book_available(calls[p].isbn))
       ELSE Goto(p, "b_update") /\ UNCHANGED last
    /\ UNCHANGED <<books, users, borrowed, today>>

\* UPDATE books SET available_copies=available_copies-1, borrow_count=...
borrow_update(p) ==
    /\ calls[p].pc = "b_update"
    /\ books' = process_borrow_books(calls[p].isbn)
    /\ Goto(p, "b_insert")
    /\ UNCHANGED <<users, borrowed, today, last>>

\* INSERT INTO borrowed VALUES (?,?,?)
borrow_insert(p) ==
    /\ calls[p].pc = "b_insert"
    /\ borrowed' = process_borrow_rows(calls[p].user_id, calls[p].isbn)
    /\ Finish(p, "borrow_book", "ok")
    /\ UNCHANGED <<books, users, today>>

\* SELECT borrow_date FROM borrowed WHERE user_id=? AND isbn=?
return_check(p, u, b) ==
    /\ calls[p] = Idle
    /\ IF check_user_has_book(u, b) = {}
       THEN /\ last' = Outcome("return_book", u, b, "not_borrowed")
            /\ UNCHANGED calls
       ELSE /\ \E first \in check_user_has_book(u, b) :
                 calls' = [calls EXCEPT ![p] =
                     InFlight("r_title", u, b, "", first.borrow_date, 0)]
            /\ UNCHANGED last
    /\ UNCHANGED <<books, users, borrowed, today>>

\* SELECT title FROM books WHERE isbn=?
return_get_title(p) ==
    /\ calls[p].pc = "r_title"
    /\ IF ~BookExists(calls[p].isbn)
       THEN Finish(p, "return_book", "IndexError")
       ELSE Goto(p, "r_user") /\ UNCHANGED last
    /\ UNCHANGED <<books, users, borrowed, today>>

\* get_user: SELECT * FROM users WHERE user_id=?, then the fine is computed
return_get_user(p) ==
    /\ calls[p].pc = "r_user"
    /\ IF ~UserExists(calls[p].user_id)
       THEN Finish(p, "return_book", "AttributeError")
       ELSE IF ~KnownMembership(users[calls[p].user_id].membership)
       THEN Finish(p, "return_book", "KeyError")
       ELSE /\ calls' = [calls EXCEPT
                   ![p].fine = calculate_return_fine(
                                   users[calls[p].user_id].membership,
                                   calls[p].borrow_date),
                   ![p].pc = IF calculate_return_fine(
                                   users[calls[p].user_id].membership,
                                   calls[p].borrow_date) > 0
                             THEN "r_fine" ELSE "r_delete"]
            /\ UNCHANGED last
    /\ UNCHANGED <<books, users, borrowed, today>>

\* UPDATE users SET fines=fines+? WHERE user_id=?
return_add_fine(p) ==
    /\ calls[p].pc = "r_fine"
    /\ users' = add_fine(calls[p].user_id, calls[p].fine)
    /\ Goto(p, "r_delete")
    /\ UNCHANGED <<books, borrowed, today, last>>

\* DELETE FROM borrowed WHERE user_id=? AND isbn=? LIMIT 1
return_delete(p) ==
    /\ calls[p].pc = "r_delete"
    /\ borrowed' \in process_return_rows(calls[p].user_id, calls[p].isbn)
    /\ Goto(p, "r_update")
    /\ UNCHANGED <<books, users, today, last>>

\* UPDATE books SET available_copies=available_copies+1 WHERE isbn=?
return_update(p) ==
    /\ calls[p].pc = "r_update"
    /\ books' = process_return_books(calls[p].isbn)
    /\ Finish(p, "return_book", "ok")
    /\ UNCHANGED <<users, borrowed, today>>

NextSteps ==
    \/ \E in \in StepBookInputs : add_book(in[1], in[2], in[3])
    \/ \E in \in StepUserInputs : add_user(in[1], in[2])
    \/ \E d \in StepDays : Tick(d)
    \/ \E p \in Callers, u \in DOMAIN users, b \in Isbns :
          borrow_get_user(p, u, b)
    \/ \E p \in Callers : borrow_count(p)
    \/ \E p \in Callers : borrow_check_book(p)
    \/ \E p \in Callers : borrow_update(p)
    \/ \E p \in Callers : borrow_insert(p)
    \/ \E p \in Callers, u \in DOMAIN users, b \in Isbns :
          return_check(p, u, b)
    \/ \E p \in Callers : return_get_title(p)
    \/ \E p \in Callers : return_get_user(p)
    \/ \E p \in Callers : return_add_fine(p)
    \/ \E p \in Callers : return_delete(p)
    \/ \E p \in Callers : return_update(p)

SpecSteps == Init /\ [][NextSteps]_vars

(***************************************************************************)
(* Read operations: each answers from the store and records its answer     *)
(***************************************************************************)
ReadOps ==
    {"get_all_books_summary", "get_book_details", "search_books",
     "get_all_users_summary", "get_user_details", "get_borrowed_books",
     "get_stats", "get_popular_books"}

SearchTexts == {<<>>, <<"a">>, <<"B">>, <<"_">>, <<"%">>}

\* the answer of a read, and whether it repeats the call just before it
ReadOutcome(op, u, b, res) ==
    [op |-> op, user_id |-> u, isbn |-> b, result |-> res,
     repeated |-> (last.op = op /\ last.user_id = u /\ last.isbn = b)]

Answer(op, u, b, res) ==
    /\ last' = ReadOutcome(op, u, b, res)
    /\ UNCHANGED <<books, users, borrowed, today, calls>>

\* the 'Availability' text of one row of get_all_books_summary
Availability(book) ==
    IF book.type = "Digital" THEN [status |-> "Unlimited (Digital)"]
    ELSE IF book.available_copies > 0
    THEN [status |-> "available", available |-> book.available_copies,
          total |-> book.total_copies]
    ELSE [status |-> "All borrowed"]

get_all_books_summary ==
    Answer("get_all_books_summary", 0, "",
           [b \in DOMAIN books |-> Availability(books[b])])

\* the lines get_book_details formats for a row
\* a bug: 'Borrowed' shows borrow_count for every book
BookDetails_BorrowCount(book) ==
    IF book.type = "Digital"
    THEN [Type |-> book.type, Availability |-> "Unlimited (Digital)",
          Borrowed_times |-> book.borrow_count,
          Total_Borrows |-> book.borrow_count]
    ELSE [Type |-> book.type, Total_Copies |-> book.total_copies,
          Available |-> book.available_copies,
          Borrowed |-> book.borrow_count,
          Total_Borrows |-> book.borrow_count]

BookDetails(book) ==
    IF book.type = "Digital"
    THEN [Type |-> book.type, Availability |-> "Unlimited (Digital)",
          Borrowed_times |-> book.borrow_count,
          Total_Borrows |-> book.borrow_count]
    ELSE [Type |-> book.type, Total_Copies |-> book.total_copies,
          Available |-> book.available_copies,
          Borrowed |-> book.total_copies - book.available_copies,
          Total_Borrows |-> book.borrow_count]

\* a bug: looking a book up counts as a borrow
get_book_details_Counting(b) ==
    /\ last' = ReadOutcome("get_book_details", 0, b,
                   IF ~BookExists(b) THEN "book_not_found"
                   ELSE BookDetails(books[b]))
    /\ books' = IF BookExists(b)
                THEN [books EXCEPT ![b].borrow_count = @ + 1] ELSE books
    /\ UNCHANGED <<users, borrowed, today, calls>>

get_book_details(b) ==
    Answer("get_book_details", 0, b,
           IF ~BookExists(b) THEN "book_not_found" ELSE BookDetails(books[b]))

\* the title and author each isbn is added with, as strings of characters
Title(b) ==
    CASE b = "b1" -> <<"A", "b">>
      [] b = "b2" -> <<"a", "_">>

Author(b) ==
    CASE b = "b1" -> <<"x">>
      [] b = "b2" -> <<"Y">>

\* SQLite's LIKE folds the case of ASCII letters
Lower(c) ==
    CASE c = "A" -> "a"
      [] c = "B" -> "b"
      [] c = "X" -> "x"
      [] c = "Y" -> "y"
      [] OTHER -> c

\* str LIKE pattern: % stands for any run of characters, _ for any one
RECURSIVE Like(_, _)
Like(pattern, str) ==
    IF pattern = <<>> THEN str = <<>>
    ELSE IF Head(pattern) = "%"
    THEN Like(Tail(pattern), str)
             \/ (str # <<>> /\ Like(pattern, Tail(str)))
    ELSE IF str = <<>> THEN FALSE
    ELSE IF Head(pattern) = "_" THEN Like(Tail(pattern), Tail(str))
    ELSE /\ Lower(Head(pattern)) = Lower(Head(str))
         /\ Like(Tail(pattern), Tail(str))

\* search_pattern = f'%{search_text}%'
search_pattern(text) == <<"%">> \o text \o <<"%">>

\* WHERE title LIKE ? OR author LIKE ?
Matches(b, text) ==
    \/ Like(search_pattern(text), Title(b))
    \/ Like(search_pattern(text), Author(b))

search_books(text) ==
    Answer("search_books", 0, text,
           [b \in {x \in DOMAIN books : Matches(x, text)} |-> books[b]])

get_all_users_summary ==
    Answer("get_all_users_summary", 0, "",
           [u \in DOMAIN users |-> users[u].membership])

UserDetails(u) ==
    [Membership |-> users[u].membership,
     Max_Books_Allowed |-> max_books(users[u].membership),
     Borrow_Period |-> max_days(users[u].membership),
     Currently_Borrowed |-> borrowed_count(u),
     Outstanding_Fines |-> users[u].fines,
     Can_Borrow |-> users[u].fines <= FineCeiling]

get_user_details(u) ==
    Answer("get_user_details", u, "",
           IF ~UserExists(u) THEN "user_not_found"
           ELSE IF ~KnownMembership(users[u].membership) THEN "KeyError"
           ELSE UserDetails(u))

\* one entry of get_borrowed_books (rows: how many equal rows there are)
\* a bug: ">" where the code has ">="
BorrowedEntry_Strict(r, m) ==
    LET days_remaining == max_days(m) - days_borrowed(r.borrow_date)
    IN  [ISBN |-> r.isbn, Days_Borrowed |-> days_borrowed(r.borrow_date),
         Status |-> IF days_remaining > 0 THEN "Due" ELSE "Overdue",
         Days |-> IF days_remaining > 0 THEN days_remaining
                  ELSE 0 - days_remaining,
         rows |-> borrowed[r]]

BorrowedEntry(r, m) ==
    LET days_remaining == max_days(m) - days_borrowed(r.borrow_date)
    IN  [ISBN |-> r.isbn, Days_Borrowed |-> days_borrowed(r.borrow_date),
         Status |-> IF days_remaining >= 0 THEN "Due" ELSE "Overdue",
         Days |-> IF days_remaining >= 0 THEN days_remaining
                  ELSE 0 - days_remaining,
         rows |-> borrowed[r]]

\* book_info[0] of an empty result: a loan row whose book is not in books
TitleLookupEmpty(u) ==
    \E r \in DOMAIN borrowed : r.user_id = u /\ ~BookExists(r.isbn)

get_borrowed_books(u) ==
    LET records == {r \in DOMAIN borrowed : r.user_id = u}
    IN  Answer("get_borrowed_books", u, "",
               IF records = {} \/ ~UserExists(u) THEN {}
               ELSE IF TitleLookupEmpty(u) THEN "IndexError"
               ELSE IF ~KnownMembership(users[u].membership) THEN "KeyError"
               ELSE {BorrowedEntry(r, users[u].membership) : r \in records})

RECURSIVE SumFines(_)
SumFines(us) ==
    IF us = {} THEN 0
    ELSE LET u == CHOOSE x \in us : TRUE
         IN  users[u].fines + SumFines(us \ {u})

get_stats ==
    Answer("get_stats", 0, "",
           [total_books |-> Cardinality(DOMAIN books),
            total_users |-> Cardinality(DOMAIN users),
            books_borrowed |-> SumCounts(borrowed, DOMAIN borrowed),
            total_fines |-> SumFines(DOMAIN users)])

\* ORDER BY borrow_count DESC LIMIT 5: any order of the rows that is
\* non-increasing in borrow_count (SQL leaves the order of ties open)
PopularOrders ==
    {q \in [1..Cardinality(DOMAIN books) -> DOMAIN books] :
        /\ \A i, j \in DOMAIN q : i < j =>
              /\ q[i] # q[j]
              /\ books[q[i]].borrow_count >= books[q[j]].borrow_count}

PopularLimits == {-1, 1, 5}

\* LIMIT ?: SQLite returns at most that many rows, and every row when the
\* value is negative
Truncated(q, limit) ==
    IF limit < 0 \/ limit >= Len(q) THEN q ELSE SubSeq(q, 1, limit)

get_popular_books(limit) ==
    \E q \in PopularOrders :
        Answer("get_popular_books", 0, "",
               [limit |-> limit,
                rows |-> Truncated([i \in DOMAIN q |->
                                       <<q[i], books[q[i]].borrow_count>>],
                                   limit)])

NextReads ==
    \/ Next
    \/ get_all_books_summary
    \/ \E b \in Isbns : get_book_details(b)
    \/ \E text \in SearchTexts : search_books(text)
    \/ get_all_users_summary
    \/ \E u \in UserIds : get_user_details(u)
    \/ \E u \in UserIds : get_borrowed_books(u)
    \/ get_stats
    \/ \E limit \in PopularLimits : get_popular_books(limit)

SpecReads == Init /\ [][NextReads]_vars

(***************************************************************************)
(* What the service methods return to app.py, and app.py's unpacking       *)
(***************************************************************************)
EngineOps ==
    {"add_book", "add_user", "borrow_book", "return_book", "get_book_details"}

Raised == {"KeyError", "IndexError", "AttributeError"}

\* the fixed characters of the message a method returns; what the f-strings
\* interpolate (title, name, amounts) only makes the string longer
MessageText(op, res) ==
    CASE res = "duplicate_isbn" -> "X This ISBN already exists!"
      [] res = "duplicate_user" -> "X This User ID already exists!"
      [] res = "user_not_found" -> "X User not found!"
      [] res = "fines_owed" -> "X Please pay fines first: $"
      [] res = "limit_reached" -> "X Limit reached! You can borrow  books max"
      [] res = "book_not_found" -> " X Book not found!"
      [] res = "no_copies" -> " X All copies of '' are currently borrowed"
      [] res = "not_borrowed" -> "X You didn't borrow this book!"
      [] res = "ok" /\ op = "add_book" -> " Added  copies of '' successfully!"
      [] res = "ok" /\ op = "add_user" -> " User '' registered successfully!"
      [] res = "ok" /\ op = "borrow_book" -> " Successfully borrowed ''! "
      [] res = "ok" /\ op = "return_book" -> " Returned ''"

\* the Python value an operation hands back: every return statement of
\* these methods returns one str
Returned(o) ==
    IF o.op = "get_book_details"
    THEN [type |-> "str",
          text |-> IF BookExists(o.isbn) THEN " \nAuthor: \nISBN: \n"
                   ELSE "X Book not found!"]
    ELSE IF o.result \in Raised THEN [type |-> "raise", text |-> o.result]
    ELSE [type |-> "str", text |-> MessageText(o.op, o.result)]

\* success, message = value: a tuple of two items unpacks, a str unpacks
\* only when it has exactly two characters, anything else is a ValueError
unpack_two(v) ==
    IF v.type = "tuple" /\ v.items = 2 THEN "unpacked"
    ELSE IF v.type = "str" /\ Len(v.text) = 2 THEN "unpacked"
    ELSE "ValueError"

TypeOK ==
    /\ DOMAIN books \subseteq Isbns
    /\ IsABag(borrowed)
    /\ today \in ClockDays

(***************************************************************************)
(* Properties                                                              *)
(***************************************************************************)
CopiesOf(bag, r) == IF r \in DOMAIN bag THEN bag[r] ELSE 0

IsBorrow(o) == o.op = "borrow_book"

IsReturn(o) == o.op = "return_book"

\* C1: for every book, in every state reachable by add_book, add_user,
\* borrow_book and return_book calls, 0 <= available_copies <= total_copies.
C1_CopiesWithinTotal ==
    \A b \in DOMAIN books :
        /\ 0 <= books[b].available_copies
        /\ books[b].available_copies <= books[b].total_copies

\* C2: no (user_id, isbn) pair ever has more than one open loan.
C2_OneOpenLoanPerPair ==
    \A u \in UserIds, b \in Isbns : OpenLoans(u, b) <= 1

\* C3: the open loans of every user number at most max_books of the user's
\* tier (Basic 3, Premium 5, VIP 10), and a borrow_book by a user whose
\* open-loan count equals max_books fails with the borrow-limit error.
C3_TierLimit(m) ==
    CASE m = "Basic" -> 3 [] m = "Premium" -> 5 [] m = "VIP" -> 10

C3_Tiers == {"Basic", "Premium", "VIP"}

C3_WithinLimit ==
    \A u \in DOMAIN users :
        users[u].membership \in C3_Tiers
            => borrowed_count(u) <= C3_TierLimit(users[u].membership)

C3_AtLimitStep ==
    LET u == last'.user_id
    IN  (/\ IsBorrow(last')
         /\ u \in DOMAIN users
         /\ users[u].membership \in C3_Tiers
         /\ borrowed_count(u) = C3_TierLimit(users[u].membership))
        => /\ last'.result = "limit_reached"
           /\ borrowed' = borrowed

C3_BorrowLimit == [](C3_WithinLimit) /\ [][C3_AtLimitStep]_vars

C3_Witness ==
    /\ IsBorrow(last)
    /\ last.result = "limit_reached"
    /\ users[last.user_id].membership = "Basic"
    /\ borrowed_count(last.user_id) = 3

\* C4: borrow_book by an existing user whose fines exceed 10.00 fails with
\* the fines-owed error whatever the isbn and creates no loan; fines of
\* exactly 10.00 are not rejected by the fines check.
C4_FinesStep ==
    LET u == last'.user_id
    IN  (IsBorrow(last') /\ u \in DOMAIN users)
        => /\ users[u].fines > 1000
              => /\ last'.result = "fines_owed"
                 /\ borrowed' = borrowed
                 /\ books' = books
           /\ users[u].fines <= 1000 => last'.result # "fines_owed"

C4_FinesBlockBorrow == [][C4_FinesStep]_vars

C4_Witness ==
    /\ IsBorrow(last)
    /\ last.result = "fines_owed"
    /\ last.isbn \in DOMAIN books
    /\ books[last.isbn].available_copies > 0
    /\ users[last.user_id].fines > 1000

C4_WitnessAtCeiling ==
    /\ IsBorrow(last)
    /\ last.result = "ok"
    /\ users[last.user_id].fines = 1000

\* C5: a successful borrow_book(u, b) decrements b.available_copies by 1,
\* increments b.borrow_count by 1 and inserts exactly one loan (u, b, today);
\* total_copies, every other book, every user and every other loan stay.
C5_BorrowStep ==
    LET u == last'.user_id
        b == last'.isbn
    IN  (IsBorrow(last') /\ last'.result = "ok")
        => /\ DOMAIN books' = DOMAIN books
           /\ b \in DOMAIN books
           /\ books'[b].available_copies = books[b].available_copies - 1
           /\ books'[b].borrow_count = books[b].borrow_count + 1
           /\ books'[b].total_copies = books[b].total_copies
           /\ books'[b].type = books[b].type
           /\ \A x \in DOMAIN books \ {b} : books'[x] = books[x]
           /\ users' = users
           /\ today' = today
           /\ \A r \in DOMAIN borrowed \cup DOMAIN borrowed' :
                 CopiesOf(borrowed', r) =
                     CopiesOf(borrowed, r)
                         + (IF r = Row(u, b, today) THEN 1 ELSE 0)
           /\ Row(u, b, today) \in DOMAIN borrowed'

C5_BorrowEffect == [][C5_BorrowStep]_vars

C5_Witness ==
    /\ IsBorrow(last)
    /\ last.result = "ok"
    /\ Cardinality(DOMAIN books) = 2
    /\ Cardinality(DOMAIN borrowed) >= 2

\* C6: a successful return_book(u, b) removes exactly one open loan row of
\* the pair (u, b), also when several identical rows exist, and increments
\* b.available_copies by 1; borrow_count, total_copies, all other books and
\* all other loans stay.
C6_ReturnStep ==
    LET u == last'.user_id
        b == last'.isbn
    IN  (IsReturn(last') /\ last'.result = "ok")
        => /\ \E gone \in LoanRows(u, b) :
                 \A r \in DOMAIN borrowed \cup DOMAIN borrowed' :
                     CopiesOf(borrowed', r) =
                         CopiesOf(borrowed, r) - (IF r = gone THEN 1 ELSE 0)
           /\ DOMAIN books' = DOMAIN books
           /\ b \in DOMAIN books
           /\ books'[b].available_copies = books[b].available_copies + 1
           /\ books'[b].borrow_count = books[b].borrow_count
           /\ books'[b].total_copies = books[b].total_copies
           /\ books'[b].type = books[b].type
           /\ \A x \in DOMAIN books \ {b} : books'[x] = books[x]

C6_ReturnEffect == [][C6_ReturnStep]_vars

C6_Witness ==
    /\ IsReturn(last)
    /\ last.result = "ok"
    /\ \E r \in LoanRows(last.user_id, last.isbn) : borrowed[r] >= 2

\* C7: on a successful return_book, with days_elapsed the whole days since
\* the loan's borrow date and max_days the limit of the user's tier, the
\* user's fines grow by (days_elapsed - max_days) x 0.50 when that is
\* positive and no fines change otherwise; no other user's fines change.
C7_MaxDays(m) ==
    CASE m = "Basic" -> 14 [] m = "Premium" -> 21 [] m = "VIP" -> 30

C7_Fine(days_elapsed, limit) ==
    IF days_elapsed - limit > 0 THEN (days_elapsed - limit) * 50 ELSE 0

C7_ReturnStep ==
    LET u == last'.user_id
        b == last'.isbn
    IN  (IsReturn(last') /\ last'.result = "ok")
        => /\ DOMAIN users' = DOMAIN users
           /\ u \in DOMAIN users
           /\ users'[u].membership = users[u].membership
           /\ \E r \in LoanRows(u, b) :
                 users'[u].fines =
                     users[u].fines
                         + C7_Fine(today - r.borrow_date,
                                   C7_MaxDays(users[u].membership))
           /\ \A x \in DOMAIN users \ {u} : users'[x] = users[x]

C7_ReturnFine == [][C7_ReturnStep]_vars

\* Basic, 20 days: the fines go from 0 to 3.00
C7_Witness ==
    /\ IsReturn(last)
    /\ last.result = "ok"
    /\ users[last.user_id].membership = "Basic"
    /\ users[last.user_id].fines = 300
    /\ today = 34

\* Basic, exactly 14 days: no fine
C7_WitnessOnTime ==
    /\ IsReturn(last)
    /\ last.result = "ok"
    /\ users[last.user_id].membership = "Basic"
    /\ users[last.user_id].fines = 0
    /\ today = 14
    /\ borrowed = EmptyBag
    /\ \A b \in DOMAIN books : books[b].borrow_count <= 1

\* C8: borrow_book checks (1) the user exists, (2) fines <= 10.00, (3) open
\* loans < max_books, (4) the book exists, (5) available_copies > 0, in this
\* order, and reports the error of the first check that fails (check 3
\* looks max_books up, which is where a tier outside RULES fails).
C8_FirstFailure(u, b) ==
    IF u \notin DOMAIN users THEN "user_not_found"
    ELSE IF users[u].fines > 1000 THEN "fines_owed"
    ELSE IF users[u].membership \notin C3_Tiers THEN "KeyError"
    ELSE IF borrowed_count(u) >= C3_TierLimit(users[u].membership)
         THEN "limit_reached"
    ELSE IF b \notin DOMAIN books THEN "book_not_found"
    ELSE IF books[b].available_copies <= 0 THEN "no_copies"
    ELSE "ok"

C8_OrderStep ==
    LET u == last'.user_id
        b == last'.isbn
    IN  IsBorrow(last') => last'.result = C8_FirstFailure(u, b)

C8_CheckOrder == [][C8_OrderStep]_vars

\* an over-fined user asks for a book that does not exist
C8_Witness ==
    /\ IsBorrow(last)
    /\ last.result = "fines_owed"
    /\ last.isbn \notin DOMAIN books

\* a user at the loan limit asks for a book with no copies left
C8_WitnessLimit ==
    /\ IsBorrow(last)
    /\ last.result = "limit_reached"
    /\ last.isbn \in DOMAIN books
    /\ books[last.isbn].available_copies <= 0

\* C9: return_book(u, b) with no open loan of the pair (unknown user,
\* unknown book, never borrowed or already returned) fails with the
\* no-such-loan error and leaves books, users and loans unchanged.
C9_NoLoanStep ==
    LET u == last'.user_id
        b == last'.isbn
    IN  (IsReturn(last') /\ OpenLoans(u, b) = 0)
        => /\ last'.result = "not_borrowed"
           /\ books' = books
           /\ users' = users
           /\ borrowed' = borrowed

C9_ReturnWithoutLoan == [][C9_NoLoanStep]_vars

\* the user holds another book, the returned one was already given back
C9_Witness ==
    /\ IsReturn(last)
    /\ last.result = "not_borrowed"
    /\ last.isbn \in DOMAIN books
    /\ books[last.isbn].borrow_count > 0
    /\ borrowed_count(last.user_id) > 0

\* C10: for a Digital book added with the sentinel copy count, borrow_book
\* by an eligible user (existing, fines <= 10.00, under the loan limit)
\* never fails with the no-copies error, however many loans are open.
C10_DigitalStep ==
    LET u == last'.user_id
        b == last'.isbn
    IN  (/\ IsBorrow(last')
         /\ b \in DOMAIN books
         /\ books[b].type = "Digital"
         /\ books[b].total_copies = 999
         /\ u \in DOMAIN users
         /\ users[u].fines <= 1000
         /\ users[u].membership \in C3_Tiers
         /\ borrowed_count(u) < C3_TierLimit(users[u].membership))
        => last'.result # "no_copies"

C10_DigitalNeverBlocks == [][C10_DigitalStep]_vars

LoansOfBook(b) ==
    SumCounts(borrowed, {r \in DOMAIN borrowed : r.isbn = b})

TotalLoans == SumCounts(borrowed, DOMAIN borrowed)

\* C11: borrow_book's effect is atomic at the granularity of committed store
\* calls: no reachable state has the book's available_copies decremented
\* and borrow_count incremented for a borrow whose loan row is not inserted.
\* (a call waiting at "b_insert" has committed the UPDATE of _process_borrow
\* and not yet issued its INSERT)
C11_BorrowAtomic == \A p \in Callers : calls[p].pc # "b_insert"

\* C12: borrow_book has a check-then-act window: two interleaved calls on a
\* book with one available copy both pass the availability check and both
\* decrement (available_copies < 0), and two interleaved calls of a user with
\* max_books - 1 loans leave the user above max_books. With the calls of
\* Callers interleaving, each excess is at most one per further caller.
C12_Excess == Cardinality(Callers) - 1

C12_RaceBound ==
    /\ \A b \in DOMAIN books :
          books[b].total_copies >= 0
              => books[b].available_copies >= 0 - C12_Excess
    /\ \A u \in DOMAIN users :
          users[u].membership \in C3_Tiers
              => borrowed_count(u)
                     <= C3_TierLimit(users[u].membership) + C12_Excess

C12_Witness ==
    /\ "b1" \in DOMAIN books
    /\ books["b1"].total_copies = 3
    /\ books["b1"].available_copies < 0
    /\ 1 \in DOMAIN users
    /\ users[1].membership = "Basic"
    /\ borrowed_count(1) > 3
    /\ \A p \in Callers : calls[p] = Idle

\* C13: return_book is not atomic against concurrent callers: every call
\* that passed the loan-exists check adds the fine it computed and increments
\* available_copies, whatever other calls did in between, while its DELETE
\* removes one row of the pair, or none when no row is left; so two
\* interleaved returns of one loan charge the fine twice and increment
\* available_copies twice (beyond total_copies) for one removed row.
C13_ReturnSteps ==
    \A p \in Callers :
        LET u == calls[p].user_id
            b == calls[p].isbn
        IN  /\ (calls[p].pc = "r_fine" /\ calls'[p].pc = "r_delete")
                  => /\ calls[p].fine > 0
                     /\ users'[u].fines = users[u].fines + calls[p].fine
            /\ (calls[p].pc = "r_delete" /\ calls'[p].pc = "r_update")
                  => /\ TotalLoans' =
                            TotalLoans - (IF OpenLoans(u, b) > 0 THEN 1 ELSE 0)
                     /\ books' = books
            /\ (calls[p].pc = "r_update" /\ calls'[p] = Idle)
                  => /\ books'[b].available_copies =
                            books[b].available_copies + 1
                     /\ borrowed' = borrowed

C13_ReturnNotAtomic == [][C13_ReturnSteps]_vars

\* one borrow, an overdue loan of a Basic user (20 days over), two returns
C13_Witness ==
    /\ "b1" \in DOMAIN books
    /\ books["b1"].borrow_count = 1
    /\ books["b1"].available_copies = books["b1"].total_copies + 1
    /\ borrowed = EmptyBag
    /\ 1 \in DOMAIN users
    /\ users[1].fines = 2000
    /\ \A p \in Callers : calls[p] = Idle

\* C14: a user's fines change only in a successful return_book of a loan that
\* is overdue (more days than max_days), and then they grow; every other
\* step leaves every user's fines as they are. get_borrowed_books reports a
\* loan as overdue exactly when it is held for more than max_days and changes
\* no fines, however long the loan has been open.
C14_FinesStep ==
    /\ \A u \in DOMAIN users :
          users'[u].fines # users[u].fines
              => /\ IsReturn(last')
                 /\ last'.user_id = u
                 /\ last'.result = "ok"
                 /\ \E r \in LoanRows(u, last'.isbn) :
                       today - r.borrow_date > C7_MaxDays(users[u].membership)
                 /\ users'[u].fines > users[u].fines
    /\ (/\ last'.op = "get_borrowed_books"
        /\ last'.user_id \in DOMAIN users
        /\ users[last'.user_id].membership \in C3_Tiers)
          => /\ users' = users
             /\ \A r \in DOMAIN borrowed :
                   r.user_id = last'.user_id
                       => \E e \in last'.result :
                             /\ e.ISBN = r.isbn
                             /\ e.Days_Borrowed = today - r.borrow_date
                             /\ e.Status = "Overdue" <=>
                                    today - r.borrow_date >
                                        C7_MaxDays(users[r.user_id].membership)

C14_FinesOnlyOnOverdueReturn == [][C14_FinesStep]_vars

\* get_borrowed_books has reported a loan 20 days overdue; no fine is owed
C14_Witness ==
    /\ last.op = "get_borrowed_books"
    /\ last.user_id \in DOMAIN users
    /\ users[last.user_id].fines = 0
    /\ \E e \in last.result : e.Status = "Overdue" /\ e.Days = 20

\* C15: the open loans of a pair (u, b) change only by a successful
\* borrow_book(u, b), which adds one, and a successful return_book(u, b),
\* which removes one; after the return of the pair's single loan no row of
\* the pair remains, a return_book(u, b) repeated right after it answers
\* not_borrowed, and a later borrow_book(u, b) opens a loan again.
C15_OtherPairs(u, b) ==
    \A r \in DOMAIN borrowed \cup DOMAIN borrowed' :
        (r.user_id # u \/ r.isbn # b)
            => CopiesOf(borrowed', r) = CopiesOf(borrowed, r)

C15_RowsAfter(u, b) ==
    {r \in DOMAIN borrowed' : r.user_id = u /\ r.isbn = b}

C15_LoanStep ==
    /\ IF (IsBorrow(last') \/ IsReturn(last')) /\ last'.result = "ok"
       THEN LET u == last'.user_id
                b == last'.isbn
                before == OpenLoans(u, b)
                after == SumCounts(borrowed', C15_RowsAfter(u, b))
            IN  /\ C15_OtherPairs(u, b)
                /\ IsBorrow(last') => after = before + 1
                /\ IsReturn(last')
                      => /\ before >= 1
                         /\ after = before - 1
                         /\ before = 1 => C15_RowsAfter(u, b) = {}
       ELSE borrowed' = borrowed
    /\ (/\ IsReturn(last) /\ last.result = "ok"
        /\ OpenLoans(last.user_id, last.isbn) = 0
        /\ IsReturn(last')
        /\ last'.user_id = last.user_id /\ last'.isbn = last.isbn)
          => last'.result = "not_borrowed"

C15_LoanLifecycle == [][C15_LoanStep]_vars

\* a pair's loan is open again: borrowed, returned, borrowed
C15_Witness ==
    /\ IsBorrow(last)
    /\ last.result = "ok"
    /\ OpenLoans(last.user_id, last.isbn) = 1
    /\ books[last.isbn].borrow_count = 2
    /\ TotalLoans = 1

\* the repeated return has answered not_borrowed
C15_WitnessRepeated ==
    /\ IsReturn(last)
    /\ last.result = "not_borrowed"
    /\ last.isbn \in DOMAIN books
    /\ books[last.isbn].borrow_count = 1

\* C16: the policy lookup gives (max_books, max_days) = (3, 14) for Basic,
\* (5, 21) for Premium and (10, 30) for VIP, fails with a KeyError for any
\* other membership, and changes no state.
C16_Policy(m) ==
    CASE m = "Basic" -> <<3, 14>>
      [] m = "Premium" -> <<5, 21>>
      [] m = "VIP" -> <<10, 30>>

C16_LookupStep ==
    (last'.op = "get_user_details" /\ last'.user_id \in DOMAIN users)
        => LET m == users[last'.user_id].membership
           IN  /\ IF m \in {"Basic", "Premium", "VIP"}
                  THEN /\ last'.result.Max_Books_Allowed = C16_Policy(m)[1]
                       /\ last'.result.Borrow_Period = C16_Policy(m)[2]
                  ELSE last'.result = "KeyError"
               /\ UNCHANGED <<books, users, borrowed, today>>

C16_PolicyLookup == [][C16_LookupStep]_vars

C16_Witness ==
    /\ last.op = "get_user_details"
    /\ last.user_id \in DOMAIN users
    /\ users[last.user_id].membership = "Premium"

C16_WitnessUnknown ==
    /\ last.op = "get_user_details"
    /\ last.user_id \in DOMAIN users
    /\ users[last.user_id].membership = "Gold"

\* C17: add_book with an isbn that exists answers duplicate_isbn and leaves
\* that book's record and everything else unchanged; no step removes a book.
C17_AddBookStep ==
    /\ DOMAIN books \subseteq DOMAIN books'
    /\ (last'.op = "add_book" /\ last'.isbn \in DOMAIN books)
          => /\ last'.result = "duplicate_isbn"
             /\ UNCHANGED <<books, users, borrowed, today>>

C17_DuplicateIsbn == [][C17_AddBookStep]_vars

\* a duplicate add_book of a book whose record differs from a new one
C17_Witness ==
    /\ last.op = "add_book"
    /\ last.result = "duplicate_isbn"
    /\ books[last.isbn].borrow_count > 0
    /\ books[last.isbn].total_copies # last.copies

\* C18: add_user with a new user_id inserts the user with fines = 0; with a
\* user_id that exists it answers duplicate_user and leaves the user's
\* membership and fines, all loans and everything else unchanged.
C18_AddUserStep ==
    last'.op = "add_user"
        => IF last'.user_id \in DOMAIN users
           THEN /\ last'.result = "duplicate_user"
                /\ UNCHANGED <<books, users, borrowed, today>>
           ELSE /\ last'.result = "ok"
                /\ last'.user_id \in DOMAIN users'
                /\ users'[last'.user_id].fines = 0

C18_Register == [][C18_AddUserStep]_vars

\* a duplicate add_user of a user who owes fines
C18_Witness ==
    /\ last.op = "add_user"
    /\ last.result = "duplicate_user"
    /\ users[last.user_id].fines > 0

\* C19 as stated: get_book_details right after the add_book of a new isbn
\* reports total_copies = available_copies = copies and borrow_count = 0,
\* for every book; get_book_details of an isbn never added answers
\* book_not_found.
C19_Reports(r, copies) ==
    /\ {"Total_Copies", "Available", "Total_Borrows"} \subseteq DOMAIN r
    /\ r.Total_Copies = copies
    /\ r.Available = copies
    /\ r.Total_Borrows = 0

C19_AfterAdd ==
    /\ last.op = "add_book"
    /\ last.result = "ok"
    /\ last'.op = "get_book_details"
    /\ last'.isbn = last.isbn

C19_NotFoundStep ==
    (last'.op = "get_book_details" /\ last'.isbn \notin DOMAIN books)
        => last'.result = "book_not_found"

C19_RoundTripStep ==
    /\ C19_AfterAdd => C19_Reports(last'.result, last.copies)
    /\ C19_NotFoundStep

C19_RoundTrip == [][C19_RoundTripStep]_vars

\* C19 amended: the copy counts are reported for a book that is not
\* Digital; for a Digital book get_book_details reports
\* "Unlimited (Digital)" and borrow_count = 0 and no copy counts.
C19_PrintedStep ==
    /\ C19_AfterAdd
          => IF last.type = "Digital"
             THEN /\ last'.result.Availability = "Unlimited (Digital)"
                  /\ last'.result.Total_Borrows = 0
                  /\ "Total_Copies" \notin DOMAIN last'.result
                  /\ "Available" \notin DOMAIN last'.result
             ELSE C19_Reports(last'.result, last.copies)
    /\ C19_NotFoundStep

C19_RoundTripPrinted == [][C19_PrintedStep]_vars

\* get_book_details of a Printed book; all that has happened to the store
\* is its add_book
C19_Witness ==
    /\ last.op = "get_book_details"
    /\ DOMAIN books = {last.isbn}
    /\ books[last.isbn].type = "Printed"
    /\ DOMAIN users = {}
    /\ today = 0

\* C20: no read operation changes books, users or loans, and a
\* get_all_books_summary or get_all_users_summary that repeats the call just
\* before it returns the same result.
C20_ReadStep ==
    last'.op \in ReadOps
        => /\ UNCHANGED <<books, users, borrowed>>
           /\ (/\ last'.repeated
               /\ last'.op \in {"get_all_books_summary",
                                "get_all_users_summary"})
                  => last'.result = last.result

C20_WitnessUsers ==
    /\ last.op = "get_all_users_summary"
    /\ last.repeated
    /\ DOMAIN users # {}

\* C21: every engine operation (add_book, add_user, borrow_book,
\* return_book, get_book_details) that returns hands back a pair
\* (success flag, message-or-data), which the caller unpacks into two values.
C21_PairOutcome ==
    (last.op \in EngineOps /\ Returned(last).type # "raise")
        => /\ Returned(last).type = "tuple"
           /\ unpack_two(Returned(last)) = "unpacked"

\* C22: get_stats returns the number of books, the number of users, the
\* number of open loan rows and the sum of all users' fines (0 without
\* users), and the open-loan count it reports equals the sum over all books
\* of total_copies - available_copies.
RECURSIVE C22_CopiesOut(_)
C22_CopiesOut(bs) ==
    IF bs = {} THEN 0
    ELSE LET b == CHOOSE x \in bs : TRUE
         IN  books[b].total_copies - books[b].available_copies
                 + C22_CopiesOut(bs \ {b})

C22_StatsStep ==
    last'.op = "get_stats"
        => /\ last'.result.total_books = Cardinality(DOMAIN books)
           /\ last'.result.total_users = Cardinality(DOMAIN users)
           /\ last'.result.books_borrowed = TotalLoans
           /\ last'.result.total_fines = SumFines(DOMAIN users)
           /\ DOMAIN users = {} => last'.result.total_fines = 0
           /\ last'.result.books_borrowed = C22_CopiesOut(DOMAIN books)

C22_Stats == [][C22_StatsStep]_vars

\* get_stats after a borrow and an overdue return, with a loan still open
C22_Witness ==
    /\ last.op = "get_stats"
    /\ last.result.books_borrowed > 0
    /\ last.result.total_fines > 0
    /\ \E b \in DOMAIN books :
          books[b].borrow_count > books[b].total_copies
                                      - books[b].available_copies

\* C23: get_popular_books(limit) returns at most limit books for every
\* integer limit, ordered by borrow_count descending: no returned book has a
\* smaller borrow_count than a later one, and no omitted book has a larger
\* borrow_count than a returned one.
C23_Ordered(rows) ==
    /\ \A i, j \in DOMAIN rows : i < j => rows[i][2] >= rows[j][2]
    /\ \A i \in DOMAIN rows :
          rows[i][1] \in DOMAIN books /\ rows[i][2] = books[rows[i][1]].borrow_count
    /\ \A b \in DOMAIN books :
          (\A i \in DOMAIN rows : rows[i][1] # b)
              => \A i \in DOMAIN rows : books[b].borrow_count <= rows[i][2]

C23_PopularStep ==
    last'.op = "get_popular_books"
        => /\ Len(last'.result.rows) <= last'.result.limit
           /\ C23_Ordered(last'.result.rows)

C23_Popular == [][C23_PopularStep]_vars

\* the same for the limits that are not negative
C23_PopularStepNonNegative ==
    (last'.op = "get_popular_books" /\ last'.result.limit >= 0)
        => /\ Len(last'.result.rows) <= last'.result.limit
           /\ C23_Ordered(last'.result.rows)

C23_PopularNonNegative == [][C23_PopularStepNonNegative]_vars

\* C24: search_books(text) returns exactly the books whose title or author
\* contains text as a literal substring, compared case-insensitively, for
\* every text, '%' and '_' included.
C24_Contains(str, text) ==
    \E i \in 0..(Len(str) - Len(text)) :
        \A k \in 1..Len(text) : Lower(str[i + k]) = Lower(text[k])

C24_Expected(text) ==
    {b \in DOMAIN books :
        C24_Contains(Title(b), text) \/ C24_Contains(Author(b), text)}

C24_SearchStep ==
    last'.op = "search_books"
        => DOMAIN last'.result = C24_Expected(last'.isbn)

C24_Search == [][C24_SearchStep]_vars

\* the same for the texts without '%' and '_'
C24_SearchStepPlain ==
    (/\ last'.op = "search_books"
     /\ \A k \in DOMAIN last'.isbn : last'.isbn[k] \notin {"%", "_"})
        => /\ DOMAIN last'.result = C24_Expected(last'.isbn)
           /\ \A b \in DOMAIN last'.result : last'.result[b] = books[b]

C24_SearchPlain == [][C24_SearchStepPlain]_vars

\* C25 as stated: for every book, the borrowed figure get_book_details
\* shows equals the number of open loan rows of that isbn.
C25_Shown(r) ==
    IF "Borrowed" \in DOMAIN r THEN r.Borrowed ELSE r.Borrowed_times

C25_DetailsStep ==
    (last'.op = "get_book_details" /\ last'.isbn \in DOMAIN books)
        => C25_Shown(last'.result) = LoansOfBook(last'.isbn)

C25_PrintedStep ==
    /\ \A b \in DOMAIN books :
          books[b].total_copies - books[b].available_copies = LoansOfBook(b)
    /\ (last'.op = "get_book_details" /\ last'.isbn \in DOMAIN books)
          => IF books[last'.isbn].type = "Digital"
             THEN /\ "Borrowed" \notin DOMAIN last'.result
                  /\ last'.result.Borrowed_times = books[last'.isbn].borrow_count
             ELSE last'.result.Borrowed = LoansOfBook(last'.isbn)

C26_FailedBorrowStep ==
    (IsBorrow(last') /\ last'.result # "ok")
        => /\ last'.result \in {"user_not_found", "fines_owed",
                                "limit_reached", "KeyError",
                                "book_not_found", "no_copies"}
           /\ UNCHANGED <<books, users, borrowed>>

C26_FailedBorrow == [][C26_FailedBorrowStep]_vars

\* a borrow has failed for lack of copies while loans are open
C26_Witness ==
    /\ IsBorrow(last)
    /\ last.result = "no_copies"
    /\ TotalLoans > 0

C26_WitnessUnknownTier ==
    /\ IsBorrow(last)
    /\ last.result = "KeyError"
    /\ last.isbn \in DOMAIN books

\* C27: every open loan row references a user_id present in users and an
\* isbn present in books, so the lookups of return_book and
\* get_borrowed_books never come back empty.
C27_Referential ==
    /\ \A r \in DOMAIN borrowed :
          r.user_id \in DOMAIN users /\ r.isbn \in DOMAIN books
    /\ \A u \in UserIds : ~TitleLookupEmpty(u)
    /\ IsReturn(last) => last.result \notin {"IndexError", "AttributeError"}

\* loans of two users are open
C27_Witness ==
    /\ \E r \in DOMAIN borrowed : r.user_id = 1
    /\ \E r \in DOMAIN borrowed : r.user_id = 2

\* C28: every user's fines are >= 0 and no step lowers them; a borrow_book
\* by a user whose fines exceed 10.00 answers fines_owed, while return_book
\* by that user still succeeds.
C28_FinesStep ==
    /\ \A u \in DOMAIN users :
          /\ users[u].fines >= 0
          /\ u \in DOMAIN users'
          /\ users'[u].fines >= users[u].fines
    /\ (/\ IsBorrow(last')
        /\ last'.user_id \in DOMAIN users
        /\ users[last'.user_id].fines > FineCeiling)
          => last'.result = "fines_owed"

C28_FinesMonotone == [][C28_FinesStep]_vars

\* three overdue returns of a Basic user, 10.00 each: the third was made
\* with 20.00 owed
C28_Witness ==
    /\ IsReturn(last)
    /\ last.result = "ok"
    /\ last.user_id \in DOMAIN users
    /\ users[last.user_id].membership = "Basic"
    /\ users[last.user_id].fines = 3000

\* C29: add_user stores the membership it is given, whatever it is; a
\* borrow_book by a user whose membership is not in RULES and whose fines
\* are <= 10.00 fails with KeyError and changes nothing; so such a user
\* never holds a loan and return_book never fails on the max_days lookup.
C29_UnknownTierStep ==
    /\ (last'.op = "add_user" /\ last'.result = "ok")
          => \E in \in AddUserInputs :
                /\ in[1] = last'.user_id
                /\ users'[in[1]].membership = in[2]
    /\ (/\ IsBorrow(last')
        /\ last'.user_id \in DOMAIN users
        /\ users[last'.user_id].membership \notin C3_Tiers
        /\ users[last'.user_id].fines <= FineCeiling)
          => /\ last'.result = "KeyError"
             /\ UNCHANGED <<books, users, borrowed>>
    /\ \A u \in DOMAIN users :
          users[u].membership \notin C3_Tiers => borrowed_count(u) = 0
    /\ IsReturn(last') => last'.result # "KeyError"

C29_UnknownTier == [][C29_UnknownTierStep]_vars

\* a borrow of an existing book by a user of membership Gold has failed
C29_Witness ==
    /\ IsBorrow(last)
    /\ last.result = "KeyError"
    /\ last.isbn \in DOMAIN books
    /\ books[last.isbn].available_copies > 0
    /\ users[last.user_id].membership = "Gold"

\* C30: get_borrowed_books and return_book agree: a loan held for
\* days_borrowed days is labelled "Due in N days" with
\* N = max_days - days_borrowed when N >= 0 and "Overdue by -N days"
\* otherwise; it is labelled overdue exactly when a return_book at that
\* moment charges a fine, and the fine is the overdue days shown times
\* FINE_PER_DAY; a loan at exactly max_days is due in 0 days and returns
\* without fine.
C30_Label(e, m, d) ==
    LET N == C7_MaxDays(m) - (today - d)
    IN  /\ e.Days_Borrowed = today - d
        /\ N >= 0 => e.Status = "Due" /\ e.Days = N
        /\ N < 0 => e.Status = "Overdue" /\ e.Days = 0 - N
        /\ e.Status = "Overdue" <=> calculate_return_fine(m, d) > 0
        /\ e.Status = "Overdue"
              => calculate_return_fine(m, d) = e.Days * FINE_PER_DAY
        /\ N = 0 => calculate_return_fine(m, d) = 0

C30_BorrowedStep ==
    (/\ last'.op = "get_borrowed_books"
     /\ last'.user_id \in DOMAIN users
     /\ users[last'.user_id].membership \in C3_Tiers)
        => LET u == last'.user_id
               m == users[u].membership
           IN  /\ \A r \in DOMAIN borrowed :
                     r.user_id = u
                         => \E e \in last'.result :
                               /\ e.ISBN = r.isbn
                               /\ e.rows = borrowed[r]
                               /\ C30_Label(e, m, r.borrow_date)
               /\ \A e \in last'.result :
                     \E r \in DOMAIN borrowed :
                        /\ r.user_id = u
                        /\ e.ISBN = r.isbn
                        /\ C30_Label(e, m, r.borrow_date)

C30_OverdueAgrees == [][C30_BorrowedStep]_vars

\* a loan shown exactly at max_days: due in 0 days
C30_Witness ==
    /\ last.op = "get_borrowed_books"
    /\ last.user_id \in DOMAIN users
    /\ \E e \in last.result :
          /\ e.Status = "Due"
          /\ e.Days = 0
          /\ e.Days_Borrowed = 14

\* a loan shown overdue, which a return then charges for
C30_WitnessOverdue ==
    /\ last.op = "get_borrowed_books"
    /\ last.user_id \in DOMAIN users
    /\ \E e \in last.result : e.Status = "Overdue" /\ e.Days = 6
====
